---- MODULE Spec2Model ----
(***************************************************************************)
(* Model of src/api/syncMembers.js: syncCircleMembers, the one-way sync of *)
(* Circle members into a Webflow CMS collection.                           *)
(*                                                                         *)
(* JavaScript values: the code only tests member fields for truthiness and *)
(* defaults them with `|| ''`, so an absent (undefined) string field is    *)
(* written "" and an absent id is written 0; both are falsy exactly as     *)
(* undefined is.  A cursor is a page token, 0 standing for "no cursor".    *)
(* Every axios call is one step: the request and its awaited response.     *)
(*                                                                         *)
(* Lines 1-117 of the file are a second copy of the member loop placed at  *)
(* module level, outside any function; syncCircleMembers never runs it and *)
(* the model is of the function (lines 149-335) only.                      *)
(***************************************************************************)
EXTENDS Integers, Sequences, FiniteSets

\* ---------------------------------------------------------------- bounds
MaxMembers == 2     \* records the source holds at most
PageLimit  == 1     \* records per source page (limit=100 in the code, scaled)
MaxItems   == MaxMembers     \* items the destination collection accepts (its plan limit)

\* ------------------------------------------------------- JavaScript helpers
Null == [null |-> TRUE]

\* String(n) for the ids of the model
String(n) ==
  CASE n = 0 -> "0" [] n = 1 -> "1" [] n = 2 -> "2" [] n = 3 -> "3" [] OTHER -> "4"

\* a || b on strings
Or(a, b) == IF a # "" THEN a ELSE b

\* ------------------------------------------------------------ source data
NoProfile == [name |-> "", email |-> "", bio |-> "", profilePictureUrl |-> "", photoUrl |-> "",
              headline |-> "", website |-> "", location |-> "",
              facebook |-> "", linkedin |-> "", instagram |-> ""]

mAnn     == [id |-> 1, name |-> "Ann", email |-> "ann@x", createdAt |-> "2024-01-01",
             profile |-> [name |-> "", email |-> "", bio |-> "hi",
                          profilePictureUrl |-> "p.png", photoUrl |-> "",
                          headline |-> "dev", website |-> "ann.example", location |-> "Aarhus",
                          facebook |-> "fb/ann", linkedin |-> "in/ann", instagram |-> "ig/ann"]]
mAnna    == [id |-> 1, name |-> "", email |-> "", createdAt |-> "",
             profile |-> [name |-> "Anna", email |-> "anna@x", bio |-> "",
                          profilePictureUrl |-> "", photoUrl |-> "q.png",
                          headline |-> "", website |-> "", location |-> "",
                          facebook |-> "", linkedin |-> "", instagram |-> ""]]
mBob     == [id |-> 2, name |-> "Bob", email |-> "bob@x", createdAt |-> "", profile |-> NoProfile]
mNoId    == [id |-> 0, name |-> "Cy", email |-> "cy@x", createdAt |-> "", profile |-> NoProfile]
mNoName  == [id |-> 3, name |-> "", email |-> "dee@x", createdAt |-> "", profile |-> NoProfile]
mNoEmail == [id |-> 4, name |-> "Eve", email |-> "", createdAt |-> "", profile |-> NoProfile]

Members == {mAnn, mAnna, mBob, mNoId, mNoName, mNoEmail}

\* the four environment variables: TRUE when set to a non-empty value
Configs == [CIRCLE_API_TOKEN : BOOLEAN, WEBFLOW_API_TOKEN : BOOLEAN,
            WEBFLOW_SITE_ID : BOOLEAN, WEBFLOW_COLLECTION_ID : BOOLEAN]

VARIABLES
  env,            \* process.env, read at module load
  source,         \* the records the Circle API currently holds
  faithful,       \* TRUE: the Webflow API answers every lookup with exactly the matching items
  items,          \* the Webflow collection; an item's id is its position
  pc,             \* where syncCircleMembers stands
  circleMembers,  \* let circleMembers
  nextCursor,     \* let nextCursor
  i,              \* position of the for-of loop in circleMembers
  searchResponse, \* let searchResponse
  srcLog,         \* the Circle requests of this run, with their responses
  trace,          \* per record of this run: the Webflow requests, the outcome, the pause
  aborted,        \* the outer catch ran
  cleanRuns       \* successive complete runs on this source with no request failing (0..2)

vars == <<env, source, faithful, items, pc, circleMembers, nextCursor, i,
          searchResponse, srcLog, trace, aborted, cleanRuns>>

Undefined == [undefined |-> TRUE]

Init ==
  /\ env \in Configs
  /\ source = <<>>
  /\ faithful \in BOOLEAN
  /\ items = <<>>
  /\ pc = "idle"
  /\ circleMembers = <<>>
  /\ nextCursor = 0
  /\ i = 0
  /\ searchResponse = Undefined
  /\ srcLog = <<>>
  /\ trace = <<>>
  /\ aborted = FALSE
  /\ cleanRuns = 0

\* Awaited with the create fired and not awaited
AwaitedExceptCreate(method) == method # "POST"

\* every axios call is awaited: the function goes on only when the request has settled
Awaited(method) == TRUE

\* ------------------------------------------------------------ the Circle API
\* the page the source serves for a cursor, and the cursor it returns with it
PageOf(src, cursor) ==
  LET lo == cursor * PageLimit + 1
      hi == IF (cursor + 1) * PageLimit < Len(src) THEN (cursor + 1) * PageLimit ELSE Len(src)
  IN  [k \in 1..(IF hi >= lo THEN hi - lo + 1 ELSE 0) |-> src[lo + k - 1]]

CursorAfter(src, cursor) ==
  IF (cursor + 1) * PageLimit < Len(src) THEN cursor + 1 ELSE 0

\* ------------------------------------------------------------ the run
\* ConfigComplete without the test of WEBFLOW_SITE_ID, which no request uses
ConfigCompleteNoSite(e) ==
  e.CIRCLE_API_TOKEN /\ e.WEBFLOW_API_TOKEN /\ e.WEBFLOW_COLLECTION_ID

\* the negation of: if (!CIRCLE_API_TOKEN || !WEBFLOW_API_TOKEN || !WEBFLOW_SITE_ID || !WEBFLOW_COLLECTION_ID)
ConfigComplete(e) ==
  e.CIRCLE_API_TOKEN /\ e.WEBFLOW_API_TOKEN /\ e.WEBFLOW_SITE_ID /\ e.WEBFLOW_COLLECTION_ID

\* a run is clean when no request failed and every lookup was answered truthfully
CleanRun(log, tr, ab) ==
  /\ faithful
  /\ ~ab
  /\ \A k \in 1..Len(log) : log[k].outcome = "ok"
  /\ \A k \in 1..Len(tr) : tr[k].outcome \in {"skipped", "created", "updated"}

Finish(log, tr, ab) ==
  /\ pc' = "done"
  /\ cleanRuns' = IF CleanRun(log, tr, ab)
                    THEN (IF cleanRuns < 2 THEN cleanRuns + 1 ELSE 2)
                    ELSE 0

\* syncCircleMembers() is called
Invoke ==
  /\ pc \in {"idle", "done"}
  /\ circleMembers' = <<>>
  /\ nextCursor' = 0
  /\ i' = 0
  /\ searchResponse' = Undefined
  /\ srcLog' = <<>>
  /\ trace' = <<>>
  /\ aborted' = FALSE
  /\ IF ConfigComplete(env)
       THEN pc' = "fetch" /\ cleanRuns' = cleanRuns
       ELSE pc' = "done" /\ cleanRuns' = 0
  /\ UNCHANGED <<env, source, faithful, items>>

\* between two runs the community changes: a member joins, leaves or is edited
SourceEdits(src) ==
  {Append(src, m) : m \in (IF Len(src) < MaxMembers THEN Members ELSE {})}
  \cup {SubSeq(src, 1, Len(src) - 1) : k \in (IF Len(src) > 0 THEN {1} ELSE {})}
  \cup {[src EXCEPT ![k] = m] : k \in 1..Len(src), m \in Members}

SourceChange ==
  /\ pc \in {"idle", "done"}
  /\ \E s \in SourceEdits(source) \ {source} : source' = s
  /\ pc' = "idle"
  /\ circleMembers' = <<>>
  /\ nextCursor' = 0
  /\ i' = 0
  /\ searchResponse' = Undefined
  /\ srcLog' = <<>>
  /\ trace' = <<>>
  /\ aborted' = FALSE
  /\ cleanRuns' = 0
  /\ UNCHANGED <<env, faithful, items>>

\* Accumulate that keeps the last page only
AccumulateAssign(cm, page) == page

\* circleMembers = circleMembers.concat(circleResponse.data.members)
Accumulate(cm, page) == cm \o page

\* LoopAgain that also asks again while nothing was fetched
LoopAgainWhileEmpty(nc) == nc # 0 \/ Len(circleMembers) = 0

\* } while (nextCursor)
LoopAgain(nc) == nc # 0

\* after the do-while loop: return on an empty collection, else enter the for-of loop
AfterFetch(cm, log) ==
  IF Len(cm) = 0
    THEN /\ i' = 0
         /\ Finish(log, <<>>, FALSE)
    ELSE /\ i' = 1
         /\ pc' = "loop"
         /\ cleanRuns' = cleanRuns

\* FetchFailed caught inside the loop: the pages fetched so far are reconciled
FetchFailedAsBreak(cm, log) ==
  /\ aborted' = TRUE
  /\ IF Len(cm) = 0
       THEN i' = 0 /\ pc' = "done" /\ cleanRuns' = 0
       ELSE i' = 1 /\ pc' = "loop" /\ cleanRuns' = 0

\* axios throws inside the do-while loop: the outer catch logs and the function ends
FetchFailed(cm, log) ==
  /\ aborted' = TRUE
  /\ pc' = "done"
  /\ i' = 0
  /\ cleanRuns' = 0

\* NoMembersPage handled as a failed request
NoMembersPageAsError(cm, log) == FetchFailed(cm, log)

\* if (!circleResponse.data || !circleResponse.data.members) { ... break; }
NoMembersPage(cm, log) ==
  /\ AfterFetch(cm, log)
  /\ aborted' = FALSE

\* one iteration of the do-while loop: one page request and its response
FetchPage ==
  /\ pc = "fetch"
  /\ \E outcome \in {"ok", "error", "nomembers"} :
       LET page == IF outcome = "ok" THEN PageOf(source, nextCursor) ELSE <<>>
           nc   == IF outcome = "ok" THEN CursorAfter(source, nextCursor) ELSE 0
           log  == Append(srcLog, [cursor |-> nextCursor, outcome |-> outcome,
                                   members |-> page, nextCursor |-> nc,
                                   awaited |-> Awaited("GET")])
       IN  /\ srcLog' = log
           /\ CASE outcome = "error" ->
                     /\ FetchFailed(circleMembers, log)
                     /\ UNCHANGED <<circleMembers, nextCursor>>
                [] outcome = "nomembers" ->
                     /\ NoMembersPage(circleMembers, log)
                     /\ UNCHANGED <<circleMembers, nextCursor>>
                [] OTHER ->
                     /\ circleMembers' = Accumulate(circleMembers, page)
                     /\ nextCursor' = nc
                     /\ aborted' = FALSE
                     /\ IF LoopAgain(nc)
                          THEN pc' = "fetch" /\ i' = i /\ cleanRuns' = cleanRuns
                          ELSE AfterFetch(Accumulate(circleMembers, page), log)
  /\ UNCHANGED <<env, source, faithful, items, searchResponse, trace>>

\* ------------------------------------------------------------ the Webflow API
\* the ids of the stored items whose circleUserId matches the filter, in collection order
RECURSIVE MatchingFrom(_, _, _)
MatchingFrom(its, filter, k) ==
  IF k > Len(its) THEN <<>>
  ELSE (IF String(its[k].circleUserId) = filter THEN <<k>> ELSE <<>>)
       \o MatchingFrom(its, filter, k + 1)

Matching(its, filter) == MatchingFrom(its, filter, 1)

\* what a lookup can answer: a faithful destination answers with the matching items;
\* any other may also answer with no item, with a body that has no items, or fail
LookupResponses(its, filter) ==
  {[status |-> "ok", hasItems |-> TRUE, items |-> Matching(its, filter)]}
  \cup (IF faithful THEN {}
        ELSE {[status |-> "ok",   hasItems |-> TRUE,  items |-> <<>>],
              [status |-> "ok",   hasItems |-> FALSE, items |-> <<>>],
              [status |-> "e404", hasItems |-> FALSE, items |-> <<>>],
              [status |-> "err",  hasItems |-> FALSE, items |-> <<>>]})

\* ------------------------------------------------------------ the member loop
\* const name = circleMember.name || circleMember.profile?.name || ''
NameOf(m) == Or(Or(m.name, m.profile.name), "")
EmailOf(m) == Or(Or(m.email, m.profile.email), "")
BioOf(m) == Or(m.profile.bio, "")
ProfilePictureUrlOf(m) == Or(Or(m.profile.profilePictureUrl, m.profile.photoUrl), "")

\* Valid without the email test
ValidNoEmail(circleUserId, name, email) == ~(circleUserId = 0 \/ name = "")

\* the negation of: if (!circleUserId || !name || !email)
Valid(circleUserId, name, email) == ~(circleUserId = 0 \/ name = "" \/ email = "")

ValidMember(m) == Valid(m.id, NameOf(m), EmailOf(m))

\* ProceedsOn that treats a 404 as any other lookup error
ProceedsOnNothing(status) == FALSE

\* the catch of the lookup: a 404 proceeds to the create-or-update step
ProceedsOn(status) == status = "e404"

\* Exists with the length test off by one
ExistsOffByOne(sr) == sr # Undefined /\ sr.hasItems /\ Len(sr.items) > 1

\* if (searchResponse && searchResponse.data && searchResponse.data.items && items.length > 0)
Exists(sr) == sr # Undefined /\ sr.hasItems /\ Len(sr.items) > 0

\* ExistingItemId that takes the last item of the response
ExistingItemIdLast(sr) == sr.items[Len(sr.items)]

\* ExistingItemId that takes the first item of the collection, not of the response
ExistingItemIdOfCollection(sr) == 1

\* const existingItemId = searchResponse.data.items[0].id
ExistingItemId(sr) == sr.items[1]

\* updatePayload built from the top-level name and email only
updatePayloadNoFallback(m) ==
  [name |-> Or(m.name, ""), email |-> Or(m.email, ""), bio |-> BioOf(m),
   profilePicture |-> IF ProfilePictureUrlOf(m) # "" THEN [url |-> ProfilePictureUrlOf(m)] ELSE Null,
   circleUserId |-> m.id, slug |-> String(m.id)]

updatePayload(m) ==
  [name |-> NameOf(m), email |-> EmailOf(m), bio |-> BioOf(m),
   profilePicture |-> IF ProfilePictureUrlOf(m) # "" THEN [url |-> ProfilePictureUrlOf(m)] ELSE Null,
   circleUserId |-> m.id, slug |-> String(m.id)]

createPayload(m) ==
  [name |-> NameOf(m), email |-> EmailOf(m), bio |-> BioOf(m),
   profilePicture |-> IF ProfilePictureUrlOf(m) # "" THEN [url |-> ProfilePictureUrlOf(m)] ELSE Null,
   circleUserId |-> m.id, slug |-> String(m.id)]

\* the payload of the module-level copy of the loop, which syncCircleMembers does not use
webflowPayload(m) ==
  [name |-> Or(m.name, ""), bio |-> Or(m.profile.bio, ""), headline |-> Or(m.profile.headline, ""),
   email |-> Or(m.email, ""), website |-> Or(m.profile.website, ""),
   location |-> Or(m.profile.location, ""), signupDate |-> Or(m.createdAt, ""),
   facebook |-> Or(m.profile.facebook, ""), linkedin |-> Or(m.profile.linkedin, ""),
   instagram |-> Or(m.profile.instagram, ""), circleUserId |-> m.id, slug |-> String(m.id)]

\* updateWebflowRequest sent to the collection instead of the item
updateWebflowRequestNoItem(existingItemId, payload) ==
  [method |-> "PUT", item |-> 0, data |-> payload]

\* createApiRequest(`.../collections/${WEBFLOW_COLLECTION_ID}/items/${existingItemId}`, 'PUT', ...)
updateWebflowRequest(existingItemId, payload) ==
  [method |-> "PUT", item |-> existingItemId, data |-> payload]

\* createWebflowRequest sent with the update's method
createWebflowRequestAsPut(payload) ==
  [method |-> "PUT", item |-> 0, data |-> payload]

\* createApiRequest(`.../collections/${WEBFLOW_COLLECTION_ID}/items`, 'POST', ...)
createWebflowRequest(payload) ==
  [method |-> "POST", item |-> 0, data |-> payload]

\* whether the destination can accept a write: a full collection rejects a POST,
\* a PUT needs an existing item; any write may also fail in transit
Accepts(its, req) ==
  CASE req.method = "POST" -> IF Len(its) < MaxItems THEN BOOLEAN ELSE {FALSE}
    [] req.method = "PUT"  -> IF req.item \in 1..Len(its) THEN BOOLEAN ELSE {FALSE}
    [] OTHER -> {FALSE}

\* the collection after an accepted write
Stored(its, req) ==
  IF req.method = "POST" THEN Append(its, req.data) ELSE [its EXCEPT ![req.item] = req.data]

\* Advance that leaves the loop one record early
AdvanceOffByOne(tr) ==
  /\ i' = i + 1
  /\ IF i + 1 < Len(circleMembers)
       THEN pc' = "loop" /\ cleanRuns' = cleanRuns
       ELSE Finish(srcLog, tr, FALSE)

\* the next iteration of the for-of loop, or its end
Advance(tr) ==
  /\ i' = i + 1
  /\ IF i < Len(circleMembers)
       THEN pc' = "loop" /\ cleanRuns' = cleanRuns
       ELSE Finish(srcLog, tr, FALSE)

\* SkipToNext as a return: the loop ends at the failed lookup
SkipToNextAsReturn(tr) ==
  /\ i' = i
  /\ Finish(srcLog, tr, FALSE)

\* SkipToNext that tries the failed record again
SkipToNextRetry(tr) ==
  /\ i' = i
  /\ pc' = "loop"
  /\ cleanRuns' = cleanRuns

\* continue; in the catch of the lookup
SkipToNext(tr) == Advance(tr)

\* the head of an iteration: extraction, validation, the lookup request and its catch
Lookup ==
  /\ pc = "loop"
  /\ LET m == circleMembers[i] IN
       IF ~ValidMember(m)
         THEN LET tr == Append(trace, [reqs |-> <<>>, outcome |-> "skipped", paused |-> FALSE])
              IN  trace' = tr /\ searchResponse' = Undefined /\ Advance(tr)
         ELSE \E resp \in LookupResponses(items, String(m.id)) :
                LET req == [method |-> "GET", filter |-> String(m.id),
                            status |-> resp.status, hasItems |-> resp.hasItems,
                            items |-> resp.items, awaited |-> Awaited("GET")]
                IN  IF resp.status = "ok" \/ ProceedsOn(resp.status)
                      THEN /\ searchResponse' = IF resp.status = "ok" THEN resp ELSE Undefined
                           /\ trace' = Append(trace, [reqs |-> <<req>>, outcome |-> "lookup",
                                                      paused |-> FALSE])
                           /\ pc' = "write"
                           /\ UNCHANGED <<i, cleanRuns>>
                      ELSE LET tr == Append(trace, [reqs |-> <<req>>, outcome |-> "error",
                                                    paused |-> FALSE])
                           IN  trace' = tr /\ searchResponse' = Undefined /\ SkipToNext(tr)
  /\ UNCHANGED <<env, source, faithful, items, circleMembers, nextCursor, srcLog, aborted>>

\* the rest of the iteration: the update or the create, its catch, and the pause
Write ==
  /\ pc = "write"
  /\ LET m    == circleMembers[i]
         upd  == Exists(searchResponse)
         call == IF upd
                   THEN updateWebflowRequest(ExistingItemId(searchResponse), updatePayload(m))
                   ELSE createWebflowRequest(createPayload(m))
     IN  \E ok \in Accepts(items, call) :
           LET req == [method |-> call.method, item |-> call.item, data |-> call.data, ok |-> ok,
                       awaited |-> Awaited(call.method)]
               out == IF upd THEN (IF ok THEN "updated" ELSE "updateFailed")
                             ELSE (IF ok THEN "created" ELSE "createFailed")
               tr  == [trace EXCEPT ![i] = [reqs |-> Append(@.reqs, req),
                                            outcome |-> out, paused |-> TRUE]]
           IN  /\ items' = IF ok THEN Stored(items, call) ELSE items
               /\ trace' = tr
               /\ searchResponse' = Undefined
               /\ Advance(tr)
  /\ UNCHANGED <<env, source, faithful, circleMembers, nextCursor, srcLog, aborted>>

\* ------------------------------------------------------------ properties
\* the records of this run whose iteration has ended
Ended == {j \in 1..Len(trace) : trace[j].outcome # "lookup"}

IsLookup(r) == r.method = "GET"
IsCreate(r) == r.method = "POST"
IsUpdate(r) == r.method = "PUT"

\* a record lacks its id, its name (top-level and profile) or its email (top-level and profile)
Missing(m) ==
  \/ m.id = 0
  \/ (m.name = "" /\ m.profile.name = "")
  \/ (m.email = "" /\ m.profile.email = "")

\* C1: with a destination that answers every lookup with exactly the matching stored
\* items, the collection never holds two items with the same circleUserId; and every
\* create follows, in the same iteration, a lookup for that id that returned no item.
C1_AtMostOnePerExternalId ==
  /\ faithful =>
       \A a, b \in 1..Len(items) :
         items[a].circleUserId = items[b].circleUserId => a = b
  /\ \A j \in 1..Len(trace) : \A r \in 1..Len(trace[j].reqs) :
       IsCreate(trace[j].reqs[r]) =>
         /\ r = 2
         /\ IsLookup(trace[j].reqs[1])
         /\ trace[j].reqs[1].filter = String(circleMembers[j].id)
         /\ trace[j].reqs[1].items = <<>>
         /\ trace[j].reqs[r].data.circleUserId = circleMembers[j].id

\* a second run on a faithful destination updates the known member and creates the new one
C1_Witness ==
  /\ faithful /\ pc = "done" /\ Len(trace) = 2 /\ Len(items) = 2
  /\ trace[1].outcome = "updated"
  /\ trace[2].outcome = "created"

\* the last valid occurrence of an id in the fetched collection
LastOf(id) ==
  LET js == {j \in 1..Len(circleMembers) :
               circleMembers[j].id = id /\ ~Missing(circleMembers[j])}
  IN  circleMembers[CHOOSE j \in js : \A k \in js : k <= j]

\* the stored item carries the values of the record
Mirrors(it, m) ==
  /\ it.circleUserId = m.id
  /\ it.slug = String(m.id)
  /\ it.name = (IF m.name # "" THEN m.name ELSE m.profile.name)
  /\ it.email = (IF m.email # "" THEN m.email ELSE m.profile.email)
  /\ it.bio = m.profile.bio

\* C2: after two successive complete runs on the same source with no request failing,
\* every valid id of the input has exactly one item, that item carries the values of
\* the second run's input, and the second run issued no create.
C2_Idempotent ==
  (pc = "done" /\ cleanRuns = 2) =>
    /\ \A j \in 1..Len(circleMembers) :
         ~Missing(circleMembers[j]) =>
           /\ Cardinality({a \in 1..Len(items) :
                             items[a].circleUserId = circleMembers[j].id}) = 1
           /\ \A a \in 1..Len(items) :
                items[a].circleUserId = circleMembers[j].id =>
                  Mirrors(items[a], LastOf(circleMembers[j].id))
    /\ \A j \in 1..Len(trace) : \A r \in 1..Len(trace[j].reqs) :
         ~IsCreate(trace[j].reqs[r])

\* the second clean run on two members of different ids, one named only in its profile
C2_Witness ==
  /\ pc = "done" /\ cleanRuns = 2 /\ Len(trace) = 2
  /\ trace[1].outcome = "updated" /\ trace[2].outcome = "updated"
  /\ circleMembers[1].id # circleMembers[2].id
  /\ \E j \in 1..2 : circleMembers[j].name = ""

\* C3: a fetched record that lacks id, name or email is skipped with no destination
\* request, and the loop goes on to the next record.
C3_InvalidSkipped ==
  \A j \in 1..Len(trace) :
    Missing(circleMembers[j]) =>
      /\ trace[j].reqs = <<>>
      /\ trace[j].outcome = "skipped"
      /\ ~aborted
      /\ pc = "done" => Len(trace) = Len(circleMembers)
      /\ (pc # "done" /\ j = Len(trace)) => (pc = "loop" /\ i = j + 1)

\* a record without email was skipped and the record after it was looked up
C3_Witness ==
  /\ pc = "done" /\ Len(trace) = 2
  /\ circleMembers[1] = mNoEmail /\ trace[1].outcome = "skipped"
  /\ Len(trace[2].reqs) > 0

\* C4: a valid record whose lookup answered with no item gets exactly one create
\* (POST to the collection) and no update.
C4_CreateOnNoMatch ==
  \A j \in Ended :
    (Len(trace[j].reqs) > 0 /\ trace[j].reqs[1].status = "ok" /\ trace[j].reqs[1].items = <<>>) =>
      /\ Len(trace[j].reqs) = 2
      /\ IsCreate(trace[j].reqs[2])
      /\ trace[j].reqs[2].item = 0

\* a lookup answered with an empty item list and the create was accepted
C4_Witness ==
  \E j \in Ended :
    /\ Len(trace[j].reqs) = 2
    /\ trace[j].reqs[1].status = "ok" /\ trace[j].reqs[1].hasItems
    /\ trace[j].reqs[1].items = <<>>
    /\ trace[j].outcome = "created"

\* C5: a valid record whose lookup answered with one item X gets an update (PUT) of
\* item X and no create.
C5_UpdateOnOneMatch ==
  \A j \in Ended :
    (Len(trace[j].reqs) > 0 /\ trace[j].reqs[1].status = "ok" /\ Len(trace[j].reqs[1].items) = 1) =>
      /\ Len(trace[j].reqs) = 2
      /\ IsUpdate(trace[j].reqs[2])
      /\ trace[j].reqs[2].item = trace[j].reqs[1].items[1]

\* the lookup of the second record answered with the one item 2, which was updated
C5_Witness ==
  \E j \in Ended :
    /\ Len(trace[j].reqs) = 2
    /\ trace[j].reqs[1].items = <<2>>
    /\ trace[j].outcome = "updated"

\* the concatenation of the pages of the Circle responses log[1..k]
RECURSIVE PagesUpTo(_, _)
PagesUpTo(log, k) == IF k = 0 THEN <<>> ELSE PagesUpTo(log, k - 1) \o log[k].members

\* the pages a source of n records serves: one at least, the last one without cursor
PagesOf(n) == IF n = 0 THEN 1 ELSE (n + PageLimit - 1) \div PageLimit

\* C6: when a source page request fails, on the first page or a later one, the run
\* ends there and issues no destination request.
C6_FetchFailureAborts ==
  \A k \in 1..Len(srcLog) :
    srcLog[k].outcome = "error" =>
      /\ aborted
      /\ pc = "done"
      /\ trace = <<>>
      /\ k = Len(srcLog)

\* the second page request failed after the first page had been accumulated
C6_Witness ==
  /\ Len(srcLog) = 2
  /\ srcLog[1].outcome = "ok" /\ srcLog[2].outcome = "error"
  /\ Len(circleMembers) > 0
  /\ pc = "done"

\* C7: with any of the four configuration values absent, the call returns without a
\* request to the source or to the destination.
C7_MissingConfigNoRequest ==
  (~env.CIRCLE_API_TOKEN \/ ~env.WEBFLOW_API_TOKEN \/ ~env.WEBFLOW_SITE_ID
     \/ ~env.WEBFLOW_COLLECTION_ID) =>
    /\ srcLog = <<>>
    /\ trace = <<>>
    /\ items = <<>>
    /\ pc \in {"idle", "done"}

\* the call returned with only the site identifier absent, the source holding records
C7_Witness ==
  /\ pc = "done"
  /\ ~env.WEBFLOW_SITE_ID
  /\ env.CIRCLE_API_TOKEN /\ env.WEBFLOW_API_TOKEN /\ env.WEBFLOW_COLLECTION_ID
  /\ Len(source) > 0

\* C8: no source request follows the first page served without a cursor; a source
\* that serves k pages with a cursor and then one without gets k + 1 requests.
C8_FetchStopsAtLastPage ==
  /\ \A k \in 1..Len(srcLog) :
       (srcLog[k].outcome = "ok" /\ srcLog[k].nextCursor = 0) =>
         (k = Len(srcLog) /\ pc # "fetch")
  /\ (pc \in {"loop", "write", "done"} /\ srcLog # <<>>
        /\ \A k \in 1..Len(srcLog) : srcLog[k].outcome = "ok") =>
       Len(srcLog) = PagesOf(Len(source))

\* two pages were served, the first with a cursor, and the fetch loop has ended
C8_Witness ==
  /\ pc = "loop"
  /\ Len(srcLog) = 2
  /\ srcLog[1].outcome = "ok" /\ srcLog[1].nextCursor # 0
  /\ srcLog[2].outcome = "ok" /\ srcLog[2].nextCursor = 0

\* C9: the collection handed to the member loop is the concatenation of the pages
\* consumed, the first asked without cursor and each next one with the cursor the
\* previous page returned; when every page was served it is the whole source.
C9_FetchedIsConcatenation ==
  /\ circleMembers = PagesUpTo(srcLog, Len(srcLog))
  /\ \A k \in 1..Len(srcLog) :
       srcLog[k].cursor = (IF k = 1 THEN 0 ELSE srcLog[k - 1].nextCursor)
  /\ \A k, l \in 1..Len(srcLog) : srcLog[k].cursor = srcLog[l].cursor => k = l
  /\ (pc \in {"loop", "write"} /\ \A k \in 1..Len(srcLog) : srcLog[k].outcome = "ok") =>
       circleMembers = source

\* the member loop starts on two records fetched in two pages
C9_Witness ==
  /\ pc = "loop" /\ i = 1
  /\ Len(srcLog) = 2
  /\ Len(circleMembers) = 2
  /\ circleMembers[1] # circleMembers[2]

\* the iteration of record j ended in a handled request failure
Failed(j) == trace[j].outcome \in {"error", "createFailed", "updateFailed"}

\* C10: a failed lookup (other than not-found), create or update on a record does not
\* end the batch: every later record gets its iteration, with a lookup if it is valid.
C10_RecordFailureIsolated ==
  \A f \in 1..Len(trace) :
    Failed(f) =>
      /\ ~aborted
      /\ pc = "done" => Len(trace) = Len(circleMembers)
      /\ (pc # "done" /\ f = Len(trace)) => (pc = "loop" /\ i = f + 1)
      /\ \A j \in (f + 1)..Len(trace) :
           ~Missing(circleMembers[j]) =>
             (Len(trace[j].reqs) > 0 /\ IsLookup(trace[j].reqs[1])
                /\ trace[j].reqs[1].filter = String(circleMembers[j].id))

\* the lookup of the first record failed and the second record was looked up and written
C10_Witness ==
  /\ pc = "done" /\ Len(trace) = 2
  /\ trace[1].outcome = "error"
  /\ Len(trace[2].reqs) = 2

\* C11: a lookup that fails with 404 is followed by a create for the record; a lookup
\* that fails otherwise is followed by no create and no update for the record.
C11_NotFoundCreates ==
  \A j \in Ended :
    Len(trace[j].reqs) > 0 =>
      /\ trace[j].reqs[1].status = "e404" =>
           /\ Len(trace[j].reqs) = 2
           /\ IsCreate(trace[j].reqs[2])
           /\ trace[j].reqs[2].data.circleUserId = circleMembers[j].id
      /\ trace[j].reqs[1].status = "err" =>
           /\ Len(trace[j].reqs) = 1
           /\ trace[j].outcome = "error"

\* one lookup failed with 404 and its record was created, the next lookup failed otherwise
C11_Witness ==
  /\ pc = "done" /\ Len(trace) = 2
  /\ trace[1].outcome = "created" /\ trace[1].reqs[1].status = "e404"
  /\ trace[2].outcome = "error" /\ trace[2].reqs[1].status = "err"

\* the iteration of record j reached one of its ends
Terminal(j) ==
  trace[j].outcome \in {"skipped", "error", "created", "updated", "createFailed", "updateFailed"}

AllRecordsDone ==
  /\ pc = "done"
  /\ Len(trace) = Len(circleMembers)
  /\ \A j \in 1..Len(trace) : Terminal(j)

\* C12: once the fetch has succeeded and the member loop is entered, the run reaches
\* its end with every fetched record in a terminal state (skipped, error, created,
\* updated, failed create or failed update), and a run that entered the loop is never
\* at its end before that.
C12_AllRecordsComplete ==
  /\ []((pc = "done" /\ ~aborted /\ Len(circleMembers) > 0) => AllRecordsDone)
  /\ ((pc = "loop" /\ i = 1) ~> AllRecordsDone)

\* a run ended with its two records in different terminal states, one a failed write
C12_Witness ==
  /\ AllRecordsDone /\ Len(trace) = 2
  /\ trace[1].outcome = "skipped"
  /\ trace[2].outcome = "createFailed"

\* the optional fields of a member, under their destination names
OptionalFields ==
  {"bio", "headline", "website", "location", "signupDate", "facebook", "linkedin", "instagram"}

\* C13: the payload of every create and of every update has name, email, circleUserId
\* and slug, and every optional field, each set to the source value or to "".
C13_FullMappingSent ==
  \A j \in 1..Len(trace) : \A r \in 1..Len(trace[j].reqs) :
    (IsCreate(trace[j].reqs[r]) \/ IsUpdate(trace[j].reqs[r])) =>
      LET d == trace[j].reqs[r].data
          m == circleMembers[j]
      IN  /\ {"name", "email", "circleUserId", "slug"} \subseteq DOMAIN d
          /\ d.circleUserId = m.id /\ d.slug = String(m.id)
          /\ \A f \in OptionalFields :
               f \in DOMAIN d /\ d[f] = webflowPayload(m)[f]

\* the ids of the fetched collection
IdsFetched == {circleMembers[j].id : j \in 1..Len(circleMembers)}

\* C14: no request is a delete, the collection never loses an item, and no step changes
\* an item whose circleUserId is not an id of the fetched collection.
C14_AbsentUntouched ==
  /\ [](\A j \in 1..Len(trace) : \A r \in 1..Len(trace[j].reqs) :
          trace[j].reqs[r].method \in {"GET", "POST", "PUT"})
  /\ [][/\ Len(items') >= Len(items)
        /\ \A a \in 1..Len(items) :
             items[a].circleUserId \notin IdsFetched => items'[a] = items[a]]_vars

\* a later run updated the one member it fetched; the item of an absent member is still there
C14_Witness ==
  /\ pc = "done" /\ Len(trace) = 1 /\ trace[1].outcome = "updated"
  /\ Len(items) = 2
  /\ \E a \in 1..Len(items) : items[a].circleUserId \notin IdsFetched

\* C15: every record whose processing ended in a success or in a handled error (failed
\* lookup, failed create, failed update) is followed by the 200 ms pause.
C15_PauseAfterEveryRecord ==
  \A j \in Ended :
    (j < Len(circleMembers)
       /\ trace[j].outcome \in {"created", "updated", "createFailed", "updateFailed", "error"}) =>
      trace[j].paused

\* the requests of record j that satisfy P
Count(j, P(_)) == Cardinality({r \in 1..Len(trace[j].reqs) : P(trace[j].reqs[r])})

IsWrite(r) == IsCreate(r) \/ IsUpdate(r)

\* C16: within a run no cursor is requested twice, every record of the fetched
\* collection gets one iteration at most, and an iteration issues at most one lookup
\* and at most one write (a create or an update), whatever fails.
C16_NoRetry ==
  /\ \A k, l \in 1..Len(srcLog) : srcLog[k].cursor = srcLog[l].cursor => k = l
  /\ Len(trace) <= Len(circleMembers)
  /\ pc = "loop" => Len(trace) = i - 1
  /\ pc = "write" => Len(trace) = i
  /\ \A j \in 1..Len(trace) :
       /\ Count(j, IsLookup) <= 1
       /\ Count(j, IsWrite) <= 1
       /\ Len(trace[j].reqs) <= 2

\* a run of two page requests in which a lookup failed and then a write failed
C16_Witness ==
  /\ pc = "done" /\ Len(srcLog) = 2 /\ Len(trace) = 2
  /\ trace[1].outcome = "error"
  /\ trace[2].outcome \in {"createFailed", "updateFailed"}

\* C17: a page without a members array ends the fetch and is no error: no source
\* request follows it, the run is not aborted, the records of the earlier pages are
\* what the member loop processes, and with none of them the run ends with no
\* destination request.
C17_PageWithoutMembersEndsFetch ==
  \A k \in 1..Len(srcLog) :
    srcLog[k].outcome = "nomembers" =>
      /\ k = Len(srcLog)
      /\ pc # "fetch"
      /\ ~aborted
      /\ circleMembers = PagesUpTo(srcLog, k - 1)
      /\ Len(circleMembers) = 0 => (pc = "done" /\ trace = <<>>)
      /\ Len(circleMembers) > 0 =>
           (pc \in {"loop", "write", "done"} /\ (pc = "done" => AllRecordsDone))

\* the second page had no members array and the record of the first page was written
C17_Witness ==
  /\ pc = "done" /\ Len(srcLog) = 2
  /\ srcLog[2].outcome = "nomembers"
  /\ Len(trace) = 1 /\ Len(trace[1].reqs) = 2

\* C18: requests are made one at a time in pipeline order: the function never goes on
\* with a request outstanding, no destination request is made while pages are still
\* being fetched, only the last iteration can be unfinished, and a create or update is
\* the request right after the settled lookup for the same id in the same iteration.
C18_Serialized ==
  /\ \A k \in 1..Len(srcLog) : srcLog[k].awaited
  /\ \A j \in 1..Len(trace) : \A r \in 1..Len(trace[j].reqs) : trace[j].reqs[r].awaited
  /\ pc = "fetch" => trace = <<>>
  /\ trace # <<>> => (srcLog # <<>> /\ srcLog[Len(srcLog)].outcome # "error"
                        /\ (srcLog[Len(srcLog)].outcome = "ok" =>
                              srcLog[Len(srcLog)].nextCursor = 0))
  /\ \A j \in 1..Len(trace) : j < Len(trace) => Terminal(j)
  /\ \A j \in 1..Len(trace) : \A r \in 1..Len(trace[j].reqs) :
       IsWrite(trace[j].reqs[r]) =>
         /\ r = 2
         /\ IsLookup(trace[j].reqs[1])
         /\ trace[j].reqs[1].status \in {"ok", "e404"}
         /\ trace[j].reqs[1].filter = String(trace[j].reqs[r].data.circleUserId)

\* two pages were fetched, then each of the two records was looked up and written
C18_Witness ==
  /\ pc = "done" /\ Len(srcLog) = 2 /\ Len(trace) = 2
  /\ Len(trace[1].reqs) = 2 /\ Len(trace[2].reqs) = 2
  /\ trace[1].outcome = "created" /\ trace[2].outcome = "updated"

\* C19: a record whose lookup answered with more than one item gets exactly one update,
\* of the first item of the response, no create and no request to the other items.
C19_FirstOfManyUpdated ==
  \A j \in Ended :
    (Len(trace[j].reqs) > 0 /\ trace[j].reqs[1].status = "ok"
       /\ Len(trace[j].reqs[1].items) > 1) =>
      /\ Len(trace[j].reqs) = 2
      /\ IsUpdate(trace[j].reqs[2])
      /\ trace[j].reqs[2].item = trace[j].reqs[1].items[1]
      /\ Count(j, IsCreate) = 0

\* the collection holds the same id twice, the lookup answered with both items and the
\* first one was updated to values the second one does not have
C19_Witness ==
  \E j \in Ended :
    /\ Len(trace[j].reqs) = 2
    /\ trace[j].reqs[1].items = <<1, 2>>
    /\ trace[j].outcome = "updated"
    /\ items[1] # items[2]

Next == Invoke \/ SourceChange \/ FetchPage \/ Lookup \/ Write

Spec == Init /\ [][Next]_vars

\* every awaited request settles, so an iteration of the member loop that can run does
LiveSpec == Spec /\ WF_vars(Lookup) /\ WF_vars(Write)
====
